---- MODULE Spec2Model ----
(***************************************************************************)
(* Model of the rrt_methods planners: RRT (rrt.py) and PotentialRRT        *)
(* (potential_rrt.py) over Field / PotentialField / ProbabilityField and   *)
(* the growth Tree (Spec, FairSpec), and of a Tree, a TreeNode and a       *)
(* PotentialField used directly by a caller (TreeSpec, ExtendSpec,         *)
(* FieldSpec).                                                             *)
(*                                                                         *)
(* Arithmetic.  The program computes with IEEE doubles; the model computes *)
(* with fixed-point numbers.  A point is a pair of integers counting grid  *)
(* steps, one grid step being 1/30 of the program's length unit, so that   *)
(* the default step delta = 0.1 is 3 grid steps.  Lengths (norms, obstacle *)
(* distances, delta, the epsilons) are integers counting hundredths of a   *)
(* grid step (0.1 -> 300, 1e-3 -> 3).  Potentials are integers counting    *)
(* tenths (v_max = 10.0 -> 10 * v_max tenths).  Uniform random draws in    *)
(* [0, 1) are integers counting thousandths.  Every quotient is rounded to *)
(* the fixed-point grid, as the program's quotients are rounded to the     *)
(* nearest double.                                                         *)
(***************************************************************************)
EXTENDS Integers, Sequences, FiniteSets, TLC

VARIABLES
    kind,               \* which planner object this is: "RRT" or "PotentialRRT"
    shape,              \* Field.shape = <<width, height>>
    obstacles,          \* Field.obstacles, in insertion order
    margin,             \* PotentialField.margin (None for a plain Field)
    attractors,         \* PotentialField.attractors: <<x, y, q>> triples
    probability_field,  \* PotentialRRT.probability_field: <<>> (None) or <<the object>>
    tree,               \* the planner's Tree: nodes in insertion order, root first
    source,             \* the source point given to the planner's constructor
    goal,               \* the goal argument of the running / last plan_path call (<<>>: no call yet)
    pc,                 \* position of the planner: see Statuses
    it,                 \* number of completed passes of plan_path's for loop
    examined,           \* extension points collision-checked in this call (saturating)
    inserted,           \* add_child calls made by this call
    result,             \* what the last finished call handed to its caller
    chosen,             \* how the last candidate of this call was chosen (None: no candidate yet)
    prev,               \* <<status, result>> of the call before the current one
    call                \* the last call made directly on a Tree, a TreeNode or a
                        \* PotentialField, with its arguments and its return value
                        \* (op None: no such call; the planners run without one)

vars == <<kind, shape, obstacles, margin, attractors, probability_field, tree,
          source, goal, pc, it, examined, inserted, result, chosen, prev, call>>

None == "None"

(***************************************************************************)
(* Bounds of the model and constants of the program.                       *)
(***************************************************************************)
\* RRT.max_it (1000 in the program), scaled down.
RRTMaxIt == 3
\* PotentialRRT.max_it (1500 in the program), scaled down.
PRRTMaxIt == 2
\* `examined` stops counting here (it only has to be able to pass max_it).
ExaminedCap == 4
\* the largest coordinate difference between two points of a field
MaxExtent == 6

\* RRT.delta = 0.1 and PotentialRRT.delta = 0.1, in hundredths of a grid step
rrt_delta == 300
prrt_delta == 300
\* RRT.eps = 1e-3 and PotentialRRT.epsilon = 1e-1
rrt_eps == 3
prrt_epsilon == 300
\* RRT.goal_bias = 0.2, in thousandths
rrt_goal_bias == 200
\* PotentialField.epsilon = 1e-3 and PotentialField.v_max = 10.0
pf_epsilon == 3
v_max == 10

max_it == IF kind = "RRT" THEN RRTMaxIt ELSE PRRTMaxIt
delta == IF kind = "RRT" THEN rrt_delta ELSE prrt_delta
eps == IF kind = "RRT" THEN rrt_eps ELSE prrt_epsilon

(***************************************************************************)
(* Fixed-point helpers.                                                    *)
(***************************************************************************)
Max(a, b) == IF a >= b THEN a ELSE b
Min(a, b) == IF a <= b THEN a ELSE b
Abs(a) == IF a >= 0 THEN a ELSE 0 - a
Between(a, b) == Min(a, b) .. Max(a, b)
\* the element of a one-element set; The({e(x) : x \in {v}}) is e(v) with v
\* evaluated once
The(S) == CHOOSE x \in S : TRUE

Dist2(p, q) == (p[1] - q[1]) * (p[1] - q[1]) + (p[2] - q[2]) * (p[2] - q[2])

\* floor(100 * sqrt(d)) for every squared distance d between two points whose
\* coordinates differ by at most MaxExtent grid steps
SqrtTable ==
    [d \in 0..(2 * MaxExtent * MaxExtent) |->
        CHOOSE k \in 0..(150 * MaxExtent) :
            k * k <= 10000 * d /\ (k + 1) * (k + 1) > 10000 * d]

\* np.linalg.norm(p - q), in hundredths of a grid step
norm(p, q) == SqrtTable[Dist2(p, q)]

(***************************************************************************)
(* Obstacles: Circle(center, r) and Polygon(points).  Polygon.distance is  *)
(* shapely's point-to-polygon distance; the polygons of the model are the  *)
(* axis-aligned rectangles (as in the program's demos), for which that     *)
(* distance is the distance to the bounding box of the vertices.           *)
(***************************************************************************)
Circle(center, r) == [type |-> "Circle", center |-> center, r |-> r]
Polygon(points) == [type |-> "Polygon", points |-> points]

CircleDistance(o, point) == Max(norm(point, o.center) - 100 * o.r, 0)

PolygonDistance(o, point) ==
    LET xs == {o.points[i][1] : i \in 1..Len(o.points)}
        ys == {o.points[i][2] : i \in 1..Len(o.points)}
        x0 == CHOOSE x \in xs : \A z \in xs : x <= z
        x1 == CHOOSE x \in xs : \A z \in xs : x >= z
        y0 == CHOOSE y \in ys : \A z \in ys : y <= z
        y1 == CHOOSE y \in ys : \A z \in ys : y >= z
    IN  The({norm(point, near) :
                 near \in {<<Max(x0, Min(point[1], x1)), Max(y0, Min(point[2], y1))>>}})

distance(o, point) ==
    IF o.type = "Circle" THEN CircleDistance(o, point) ELSE PolygonDistance(o, point)

(***************************************************************************)
(* Tree and TreeNode.  A node is [point, parent, children]; parent and     *)
(* children are positions in the sequence `tree` (0: no parent).           *)
(***************************************************************************)
TreeNode(point, parent) == [point |-> point, parent |-> parent, children |-> <<>>]

Tree(point) == <<TreeNode(point, 0)>>

\* add_child putting the new node at the head of the child list
AddChildFirst(t, n, point) ==
    [Append(t, TreeNode(point, n)) EXCEPT ![n].children = <<Len(t) + 1>> \o @]

\* add_child attaching the new node to the root, whatever the receiver
AddChildToRoot(t, n, point) ==
    [Append(t, TreeNode(point, 1)) EXCEPT ![1].children = Append(@, Len(t) + 1)]

add_child(t, n, point) ==
    [Append(t, TreeNode(point, n)) EXCEPT ![n].children = Append(@, Len(t) + 1)]

RECURSIVE _find_nearest_recursion(_, _, _)
RECURSIVE ScanChildren(_, _, _, _, _)
RECURSIVE ScanChildrenLastWins(_, _, _, _, _)
\* the loop with <= for <: a later node at the same distance replaces the best
ScanChildrenLastWins(t, node, point, i, nearest) ==
    IF i > Len(t[node].children) THEN nearest
    ELSE The({IF Dist2(point, t[child_nearest].point) <= Dist2(point, t[nearest].point)
              THEN ScanChildrenLastWins(t, node, point, i + 1, child_nearest)
              ELSE ScanChildrenLastWins(t, node, point, i + 1, nearest) :
                  child_nearest \in
                      {_find_nearest_recursion(t, t[node].children[i], point)}})

\* the for loop of _find_nearest_recursion from child number i on
ScanChildren(t, node, point, i, nearest) ==
    IF i > Len(t[node].children) THEN nearest
    ELSE The({IF Dist2(point, t[child_nearest].point) < Dist2(point, t[nearest].point)
              THEN ScanChildren(t, node, point, i + 1, child_nearest)
              ELSE ScanChildren(t, node, point, i + 1, nearest) :
                  child_nearest \in
                      {_find_nearest_recursion(t, t[node].children[i], point)}})

_find_nearest_recursion(t, node, point) == ScanChildren(t, node, point, 1, node)

find_nearest(t, point) == _find_nearest_recursion(t, 1, point)

\* delta * d / distance rounded to the nearest grid step (d a coordinate
\* difference in grid steps, d2 the squared distance, dl in hundredths)
Scaled(d, d2, dl) ==
    LET a == Abs(d)
        k == CHOOSE j \in 0..(a + 1) :
                 /\ (j = 0 \/ (2 * j - 1) * (2 * j - 1) * 10000 * d2 <= 4 * dl * dl * a * a)
                 /\ (2 * j + 1) * (2 * j + 1) * 10000 * d2 > 4 * dl * dl * a * a
    IN  IF d >= 0 THEN k ELSE 0 - k

\* an extension that is not limited to delta
ExtendUnlimited(self_point, point, dl) == point

extend(self_point, point, dl) ==
    LET d2 == Dist2(point, self_point)
    IN  IF norm(point, self_point) < dl
        THEN point
        ELSE <<self_point[1] + Scaled(point[1] - self_point[1], d2, dl),
               self_point[2] + Scaled(point[2] - self_point[2], d2, dl)>>

(***************************************************************************)
(* PotentialField.potential and ProbabilityField.                          *)
(***************************************************************************)
\* the attractor loop of potential from attractor number i on
RECURSIVE AttractionLoop(_, _, _, _)
AttractionLoop(atts, point, i, pot) ==
    IF i > Len(atts) THEN pot
    ELSE The({AttractionLoop(atts, point, i + 1,
                  pot - (30000 * atts[i][3]) \div (IF d < pf_epsilon THEN pf_epsilon ELSE d)) :
                  d \in {norm(<<atts[i][1], atts[i][2]>>, point)}})

\* the obstacle loop without the early return: an obstacle closer than
\* epsilon adds v_max to the sum and the loop goes on
RECURSIVE RepulsionLoopNoReturn(_, _, _, _, _)
RepulsionLoopNoReturn(obs, m, point, i, pot) ==
    IF i > Len(obs) THEN pot
    ELSE The({IF d < pf_epsilon
              THEN RepulsionLoopNoReturn(obs, m, point, i + 1, pot + 10 * v_max)
              ELSE RepulsionLoopNoReturn(obs, m, point, i + 1,
                       pot + Max(10 * v_max - (10 * v_max * d) \div (100 * m), 0)) :
                  d \in {distance(obs[i], point)}})

\* the obstacle loop of potential from obstacle number i on
RECURSIVE RepulsionLoop(_, _, _, _, _)
RepulsionLoop(obs, m, point, i, pot) ==
    IF i > Len(obs) THEN pot
    ELSE The({IF d < pf_epsilon THEN 10 * v_max
              ELSE RepulsionLoop(obs, m, point, i + 1,
                       pot + Max(10 * v_max - (10 * v_max * d) \div (100 * m), 0)) :
                  d \in {distance(obs[i], point)}})

\* PotentialField.potential(point), in tenths
potential(obs, atts, m, point) ==
    RepulsionLoop(obs, m, point, 1, AttractionLoop(atts, point, 1, 0))

\* a rectangle reaching one grid step beyond the field's far edges
RectangleBeyond(sh) == Between(0, sh[1] + 1) \X Between(0, sh[2] + 1)

\* the points of the rectangle on the model's grid (np.meshgrid of two linspaces)
Rectangle(sh) == Between(0, sh[1]) \X Between(0, sh[2])

compute_potential_range(sh, obs, atts, m) ==
    LET potentials == {potential(obs, atts, m, p) : p \in Rectangle(sh)}
    IN  <<CHOOSE v \in potentials : \A w \in potentials : v <= w,
          CHOOSE v \in potentials : \A w \in potentials : v >= w>>

\* dblquad of pot_max - potential over the rectangle: the sum over the grid
\* cells (each of area one grid step squared), cell k being the k-th point of
\* the rectangle counted row by row
RECURSIVE Quadrature(_, _, _, _, _, _)
Quadrature(k, sh, pot_max, obs, atts, m) ==
    LET cols == Abs(sh[1]) + 1
        rows == Abs(sh[2]) + 1
        p == <<Min(0, sh[1]) + (k % cols), Min(0, sh[2]) + (k \div cols)>>
    IN  IF k >= cols * rows THEN 0
        ELSE (pot_max - potential(obs, atts, m, p))
             + Quadrature(k + 1, sh, pot_max, obs, atts, m)

\* ProbabilityField.__init__(field): no check of the normalization factor
ProbabilityField(sh, obs, atts, m) ==
    The({[pot_min |-> range[1],
          pot_max |-> range[2],
          normalization_factor |-> Quadrature(0, sh, range[2], obs, atts, m)] :
              range \in {compute_potential_range(sh, obs, atts, m)}})

\* ProbabilityField._pdf(x, y) as the fraction <<numerator, denominator>>; a
\* zero denominator is the double division by 0.0 (inf, -inf or nan).  The
\* factor 900 converts the area from grid steps squared.
_pdf(pf, sh, obs, atts, m, x, y) ==
    IF x < 0 \/ x > sh[1] \/ y < 0 \/ y > sh[2]
    THEN <<0, 1>>
    ELSE <<900 * (pf.pot_max - potential(obs, atts, m, <<x, y>>)),
           pf.normalization_factor>>

\* rng.uniform(0, 1) < pdf, for a draw of u thousandths
RvsAccepts(u, pdf) ==
    IF pdf[2] = 0 THEN pdf[1] > 0
    ELSE IF pdf[2] > 0
         THEN IF pdf[1] >= pdf[2] THEN TRUE
              ELSE IF pdf[1] <= 0 THEN FALSE
              ELSE u * pdf[2] < 1000 * pdf[1]
         ELSE IF pdf[1] <= pdf[2] THEN TRUE
              ELSE IF pdf[1] >= 0 THEN FALSE
              ELSE u * pdf[2] > 1000 * pdf[1]

(***************************************************************************)
(* Inputs: the fields, sources and goals the planners are run on.          *)
(***************************************************************************)
\* a wall one grid step thick (thinner than delta) from the bottom to the top
\* edge of the 5 x 1 field, separating its left part from its right part
Wall == Polygon(<<<<2, 0>>, <<2, 1>>, <<3, 1>>, <<3, 0>>>>)
\* a polygon covering the whole 5 x 1 field
Cover == Polygon(<<<<0, 0>>, <<0, 1>>, <<5, 1>>, <<5, 0>>>>)
\* a disc around <<1, 1>> that leaves only the source free on the wall's left
Disc == Circle(<<1, 1>>, 1)

Shapes == {<<5, 1>>, <<0, 1>>}
ObstacleLists == {<<>>, <<Wall>>, <<Disc, Wall>>, <<Cover>>}
Margins == {2, 0 - 1}
AttractorLists == {<<>>, <<<<5, 0, 2>>>>}
Sources == {<<0, 0>>}
Goals == {<<5, 0>>, <<1, 0>>}
\* draws of random.random() and rng.uniform(0, 1), in thousandths
Draws == {0, 500}

Statuses == {"Idle", "Planning", "Sampling", "Succeeded", "ExhaustedBudget", "Raised"}
Running == pc \in {"Planning", "Sampling"}
NoCall == "NoCall"
NoDirectCall == [op |-> None]
Exception == "Exception"
\* the two ways a pass of plan_path obtains its candidate point
ByGoalBias == "goal"
BySampler == "_sample_free_space"

(***************************************************************************)
(* RRT.__init__ / PotentialRRT.__init__ on a field built beforehand.       *)
(***************************************************************************)
Init ==
    /\ kind \in {"RRT", "PotentialRRT"}
    /\ shape \in Shapes
    /\ obstacles \in ObstacleLists
    /\ margin \in IF kind = "RRT" THEN {None} ELSE Margins
    /\ attractors \in IF kind = "RRT" THEN {<<>>} ELSE AttractorLists
    /\ probability_field = <<>>
    /\ source \in Sources
    /\ tree = Tree(source)
    /\ goal = <<>>
    /\ pc = "Idle"
    /\ it = 0
    /\ examined = 0
    /\ inserted = 0
    /\ result = NoCall
    /\ chosen = None
    /\ prev = <<NoCall, NoCall>>
    /\ call = NoDirectCall

field_vars == <<kind, shape, obstacles, margin, attractors, source>>

\* rrt.probability_field = ProbabilityField(rrt.potential_field)
SetProbabilityField ==
    /\ kind = "PotentialRRT"
    /\ ~Running
    /\ probability_field = <<>>
    /\ \E pf \in {ProbabilityField(shape, obstacles, attractors, margin)} :
           probability_field' = <<pf>>
    /\ UNCHANGED <<call, field_vars, tree, goal, pc, it, examined, inserted, result,
                   chosen, prev>>

\* plan_path without the reset: the tree of the previous call is kept
KeepTree(t) == t

\* self.tree = Tree(self.tree.root.point)
ResetTree(t) == Tree(t[1].point)

\* the entry of plan_path(g), up to the first pass of the for loop
PlanPathStart ==
    /\ ~Running
    /\ \E g \in Goals : goal' = g
    /\ tree' = ResetTree(tree)
    /\ it' = 0
    /\ examined' = 0
    /\ inserted' = 0
    /\ prev' = <<pc, result>>
    /\ result' = NoCall
    /\ chosen' = None
    /\ pc' = "Planning"
    /\ UNCHANGED <<call, field_vars, probability_field>>

\* a collision check that accepts every point
AlwaysFree(obs, point) == TRUE

\* obstacle.distance(point) == 0 for no obstacle
_check_collision_free(obs, point) ==
    \A i \in 1..Len(obs) : distance(obs[i], point) # 0

\* the goal test with <= for <
ReachedGoalInclusive(point, g, e) == norm(point, g) <= e

\* np.linalg.norm(extended_point - goal) < eps
ReachedGoal(point, g, e) == norm(point, g) < e

\* the count of examined extension points, which stops at ExaminedCap
Count(n) == Min(n + 1, ExaminedCap)

\* the for loop's next position after a pass that did not leave the loop:
\* falling out of the loop returns None to the caller
EndOfPass ==
    /\ it' = it + 1
    /\ pc' = IF it + 1 >= max_it THEN "ExhaustedBudget" ELSE "Planning"
    /\ result' = IF it + 1 >= max_it THEN None ELSE result

(***************************************************************************)
(* RRT.plan_path: one pass of the for loop on the candidate random_point.  *)
(***************************************************************************)
\* a colliding extension point that does not use up a pass
RRTContinueFree(i) == i

\* the pass counter after a pass whose extension point collides: `continue`
RRTContinue(i) == i + 1

RRTPass(random_point) ==
    \E nearest_node \in {find_nearest(tree, random_point)} :
    \E extended_point \in {extend(tree[nearest_node].point, random_point, rrt_delta)} :
        /\ examined' = Count(examined)
        /\ IF ~_check_collision_free(obstacles, extended_point)
           THEN /\ it' = RRTContinue(it)
                /\ pc' = IF it' >= max_it THEN "ExhaustedBudget" ELSE "Planning"
                /\ result' = IF it' >= max_it THEN None ELSE result
                /\ UNCHANGED <<tree, inserted>>
           ELSE /\ tree' = add_child(tree, nearest_node, extended_point)
                /\ inserted' = inserted + 1
                /\ IF ReachedGoal(extended_point, goal, rrt_eps)
                   THEN /\ pc' = "Succeeded"
                        /\ result' = None
                        /\ it' = it
                   ELSE EndOfPass
        /\ UNCHANGED <<call, field_vars, probability_field, goal, prev>>

\* random.random() < self.goal_bias: the candidate is the goal
RRTGoalBias ==
    /\ kind = "RRT"
    /\ pc = "Planning"
    /\ \E r \in Draws : r < rrt_goal_bias
    /\ chosen' = ByGoalBias
    /\ RRTPass(goal)

\* _sample_free_space draws a collision-free point and returns it
RRTSampleAccept ==
    /\ kind = "RRT"
    /\ \/ pc = "Planning" /\ \E r \in Draws : ~(r < rrt_goal_bias)
       \/ pc = "Sampling"
    /\ \E random_point \in Rectangle(shape) :
          /\ _check_collision_free(obstacles, random_point)
          /\ chosen' = BySampler
          /\ RRTPass(random_point)

\* _sample_free_space draws a point inside an obstacle and loops: the
\* `while True` has no attempt counter, so a repeated rejection leaves the
\* planner's state as it is and the call stays in the sampler
RRTSampleReject ==
    /\ kind = "RRT"
    /\ \/ pc = "Planning" /\ \E r \in Draws : ~(r < rrt_goal_bias)
       \/ pc = "Sampling"
    /\ \E random_point \in Rectangle(shape) :
          ~_check_collision_free(obstacles, random_point)
    /\ pc' = "Sampling"
    /\ UNCHANGED <<call, field_vars, probability_field, tree, goal, it, examined,
                   inserted, result, chosen, prev>>

(***************************************************************************)
(* PotentialRRT.plan_path: one pass of the inner `while True` loop on the  *)
(* candidate random_point that rvs returned.                               *)
(***************************************************************************)
\* PotentialRRT._check_collision_free: the same loop as RRT's
PRRT_check_collision_free(obs, point) ==
    \A i \in 1..Len(obs) : distance(obs[i], point) # 0

\* the pass counter after an extension point that collides: the inner loop
\* samples again, within the same pass of the for loop
PRRTRetry(i) == i

PRRTPass(random_point) ==
    \E nearest_node \in {find_nearest(tree, random_point)} :
    \E extended_point \in {extend(tree[nearest_node].point, random_point, prrt_delta)} :
        /\ examined' = Count(examined)
        /\ IF ~PRRT_check_collision_free(obstacles, extended_point)
           THEN /\ it' = PRRTRetry(it)
                /\ pc' = "Planning"
                /\ UNCHANGED <<tree, inserted, result>>
           ELSE /\ tree' = add_child(tree, nearest_node, extended_point)
                /\ inserted' = inserted + 1
                /\ IF ReachedGoal(extended_point, goal, prrt_epsilon)
                   THEN /\ pc' = "Succeeded"
                        /\ result' = None
                        /\ it' = it
                   ELSE EndOfPass
        /\ UNCHANGED <<call, field_vars, probability_field, goal, prev>>

\* the missing probability field reported as an exhausted budget
SampleUnsetSwallowed == [pc |-> "ExhaustedBudget", result |-> None]

\* _sample_free_space with no probability field: raise Exception(...), which
\* plan_path does not catch
SampleUnset == [pc |-> "Raised", result |-> Exception]

PRRTRaise ==
    /\ kind = "PotentialRRT"
    /\ pc = "Planning"
    /\ probability_field = <<>>
    /\ pc' = SampleUnset.pc
    /\ result' = SampleUnset.result
    /\ UNCHANGED <<call, field_vars, probability_field, tree, goal, it, examined,
                   inserted, chosen, prev>>

\* rvs draws x, y, u and accepts: _sample_free_space returns <<x, y>>
PRRTRvsAccept ==
    /\ kind = "PotentialRRT"
    /\ Running
    /\ probability_field # <<>>
    /\ \E random_point \in Rectangle(shape), u \in Draws :
       \E pdf \in {_pdf(probability_field[1], shape, obstacles, attractors,
                         margin, random_point[1], random_point[2])} :
          /\ RvsAccepts(u, pdf)
          /\ chosen' = BySampler
          /\ PRRTPass(random_point)

\* rvs draws x, y, u, rejects and loops
PRRTRvsReject ==
    /\ kind = "PotentialRRT"
    /\ Running
    /\ probability_field # <<>>
    /\ \E random_point \in Rectangle(shape), u \in Draws :
       \E pdf \in {_pdf(probability_field[1], shape, obstacles, attractors,
                         margin, random_point[1], random_point[2])} :
          ~RvsAccepts(u, pdf)
    /\ pc' = "Sampling"
    /\ UNCHANGED <<call, field_vars, probability_field, tree, goal, it, examined,
                   inserted, result, chosen, prev>>

Next ==
    \/ SetProbabilityField
    \/ PlanPathStart
    \/ RRTGoalBias
    \/ RRTSampleAccept
    \/ RRTSampleReject
    \/ PRRTRaise
    \/ PRRTRvsAccept
    \/ PRRTRvsReject

Spec == Init /\ [][Next]_vars

\* The planner is single-threaded and keeps running, and every outcome of a
\* random draw has positive probability: a step that can change the state is
\* eventually taken, and a sampler that can again and again draw an
\* acceptable candidate eventually draws one.
FairSpec ==
    /\ Spec
    /\ WF_vars(Next)
    /\ SF_vars(RRTGoalBias)
    /\ SF_vars(RRTSampleAccept)
    /\ SF_vars(PRRTRvsAccept)

(***************************************************************************)
(* A Tree used directly: Tree(point), then add_child on any of its nodes   *)
(* and find_nearest for any point, in any order.  No planner is involved.  *)
(***************************************************************************)
\* the most nodes a directly used tree grows to
MaxNodes == 4

TreePoints == (0..1) \X (0..1)

planner_vars == <<kind, shape, obstacles, margin, attractors, probability_field,
                  source, goal, pc, it, examined, inserted, result, chosen, prev>>

NoPlanner ==
    /\ kind = None
    /\ shape = None
    /\ obstacles = <<>>
    /\ margin = None
    /\ attractors = <<>>
    /\ probability_field = <<>>
    /\ source = None
    /\ goal = <<>>
    /\ pc = "Idle"
    /\ it = 0
    /\ examined = 0
    /\ inserted = 0
    /\ result = NoCall
    /\ chosen = None
    /\ prev = <<NoCall, NoCall>>

TreeInit ==
    /\ NoPlanner
    /\ \E point \in TreePoints : tree = Tree(point)
    /\ call = NoDirectCall

\* node.add_child(point) on the node at position n
TreeAddChild ==
    /\ Len(tree) < MaxNodes
    /\ \E n \in 1..Len(tree), point \in TreePoints :
           tree' = add_child(tree, n, point)
    /\ call' = NoDirectCall
    /\ UNCHANGED planner_vars

\* tree.find_nearest(point)
TreeFindNearest ==
    /\ \E point \in TreePoints :
           call' = [op |-> "find_nearest", point |-> point,
                    ret |-> find_nearest(tree, point)]
    /\ UNCHANGED <<tree, planner_vars>>

TreeNext == TreeAddChild \/ TreeFindNearest

TreeSpec == TreeInit /\ [][TreeNext]_vars

(***************************************************************************)
(* A TreeNode used directly: node.extend(point, delta) for any node point, *)
(* any target point and any positive delta.                                *)
(***************************************************************************)
ExtendPoints == (0..4) \X (0..4)
\* the delta arguments: one, three (the planners' 0.1) and five grid steps
Deltas == {100, 300, 500}

ExtendInit ==
    /\ NoPlanner
    /\ \E point \in ExtendPoints : tree = Tree(point)
    /\ call = NoDirectCall

\* tree.root.extend(point, dl)
NodeExtend ==
    /\ \E point \in ExtendPoints, dl \in Deltas :
           call' = [op |-> "extend", point |-> point, delta |-> dl,
                    ret |-> extend(tree[1].point, point, dl)]
    /\ UNCHANGED <<tree, planner_vars>>

ExtendNext == NodeExtend

ExtendSpec == ExtendInit /\ [][ExtendNext]_vars

(***************************************************************************)
(* A PotentialField used directly: PotentialField(shape, margin), then     *)
(* add_obstacle, add_attractor and potential(point) in any order.          *)
(***************************************************************************)
\* the most obstacles and the most attractors added to such a field
MaxObstacles == 2
MaxAttractors == 2

FieldObstacles == {Wall, Disc, Cover}
\* attractors: in the free corner, and inside the wall
FieldAttractors == {<<5, 0, 2>>, <<2, 0, 5>>}

FieldInit ==
    /\ kind = None
    /\ shape = <<5, 1>>
    /\ obstacles = <<>>
    /\ margin \in Margins
    /\ attractors = <<>>
    /\ probability_field = <<>>
    /\ source = None
    /\ tree = <<>>
    /\ goal = <<>>
    /\ pc = "Idle"
    /\ it = 0
    /\ examined = 0
    /\ inserted = 0
    /\ result = NoCall
    /\ chosen = None
    /\ prev = <<NoCall, NoCall>>
    /\ call = NoDirectCall

run_vars == <<kind, shape, margin, probability_field, source, tree, goal, pc, it,
              examined, inserted, result, chosen, prev>>

\* field.add_obstacle(obstacle)
FieldAddObstacle ==
    /\ Len(obstacles) < MaxObstacles
    /\ \E obstacle \in FieldObstacles : obstacles' = Append(obstacles, obstacle)
    /\ call' = NoDirectCall
    /\ UNCHANGED <<attractors, run_vars>>

\* field.add_attractor(point, charge)
FieldAddAttractor ==
    /\ Len(attractors) < MaxAttractors
    /\ \E a \in FieldAttractors : attractors' = Append(attractors, a)
    /\ call' = NoDirectCall
    /\ UNCHANGED <<obstacles, run_vars>>

\* field.potential(point)
FieldPotential ==
    /\ \E point \in Rectangle(shape) :
           call' = [op |-> "potential", point |-> point,
                    ret |-> potential(obstacles, attractors, margin, point)]
    /\ UNCHANGED <<obstacles, attractors, run_vars>>

FieldNext == FieldAddObstacle \/ FieldAddAttractor \/ FieldPotential

FieldSpec == FieldInit /\ [][FieldNext]_vars

(***************************************************************************)
(* Properties.                                                             *)
(***************************************************************************)
Collides(point) == \E i \in 1..Len(obstacles) : distance(obstacles[i], point) = 0

NearGoal(n) == norm(tree[n].point, goal) < eps

\* the node reached from n by following k parent references (0: past the root)
RECURSIVE Ancestor(_, _)
Ancestor(n, k) == IF k = 0 \/ n = 0 THEN n ELSE Ancestor(tree[n].parent, k - 1)

C2_ExaminedWithinBudget == examined <= max_it

\* C2 (amended): in RRT a rejected extension point uses up one pass, so a call
\* examines at most max_it extension points; in both planners a call inserts
\* at most max_it points, never more than it examined.
C2_RejectionBudget ==
    /\ kind = "RRT" => examined <= max_it
    /\ inserted <= max_it
    /\ inserted <= examined

\* an RRT call that used up its budget with a rejected extension point in it
C2_Witness ==
    kind = "RRT" /\ pc = "ExhaustedBudget" /\ examined = max_it /\ inserted < examined

\* an obstacle of the field blocks a whole column of the rectangle strictly
\* between the source and the goal
Separated ==
    \E i \in 1..Len(obstacles) :
        \E x \in Between(source[1], goal[1]) \ {source[1], goal[1]} :
            \A y \in Between(0, shape[2]) : distance(obstacles[i], <<x, y>>) = 0

\* C3: when an obstacle separates the source from the goal, plan_path never
\* ends in Succeeded.
C3_NeverSucceedsAcrossObstacle == pc = "Succeeded" => ~Separated

\* C4: plan_path is in Succeeded exactly when the last inserted node is within
\* epsilon of the goal; no earlier inserted node is; and the parent chain of
\* the last node of a succeeded call ends at the root.
C4_SucceededIffGoalNode ==
    pc # "Idle" =>
        /\ pc = "Succeeded" <=> (Len(tree) >= 2 /\ NearGoal(Len(tree)))
        /\ \A n \in 2..(Len(tree) - 1) : ~NearGoal(n)
        /\ pc = "Succeeded" =>
               \E k \in 1..Len(tree) :
                   /\ Ancestor(Len(tree), k) = 1
                   /\ tree[Ancestor(Len(tree), k)].point = source

\* a succeeded call whose goal node is not a child of the root
C4_Witness == pc = "Succeeded" /\ Len(tree) >= 3 /\ tree[Len(tree)].parent # 1

\* C5: every non-root node of the tree is collision-free.
C5_NodesCollisionFree == \A n \in 2..Len(tree) : ~Collides(tree[n].point)

\* a tree with inserted nodes in a field with obstacles, after a rejection
C5_Witness == Len(tree) >= 2 /\ obstacles # <<>> /\ inserted < examined

\* C6: a call that exhausts its budget returns a value different from the one
\* a call that reached the goal returns.
C6_DistinctResultValues ==
    \/ pc = "ExhaustedBudget" /\ prev[1] = "Succeeded"
    \/ pc = "Succeeded" /\ prev[1] = "ExhaustedBudget"
    => result # prev[2]

\* C7: PotentialRRT.plan_path with no probability field fails on the first
\* sampling attempt: nothing is sampled or examined, the tree is the root
\* alone, and the call ends raising, never Succeeded or ExhaustedBudget.
C7_UnsetFieldRaises ==
    (kind = "PotentialRRT" /\ probability_field = <<>> /\ pc # "Idle") =>
        /\ pc \in {"Planning", "Raised"}
        /\ tree = Tree(source)
        /\ examined = 0 /\ inserted = 0 /\ it = 0
        /\ pc = "Raised" => result = Exception
        /\ pc = "Planning" => ENABLED PRRTRaise

\* a PotentialRRT call that raised for want of a probability field
C7_Witness == kind = "PotentialRRT" /\ probability_field = <<>> /\ pc = "Raised"

\* C8: every plan_path call eventually ends.
C8_EveryCallEnds == Running ~> ~Running

\* C9: no planner runs plan_path on a field with a non-positive width or
\* height, or on a potential field with a non-positive margin.
C9_ValidConfiguration ==
    Running => /\ shape[1] > 0
               /\ shape[2] > 0
               /\ kind = "PotentialRRT" => margin > 0

\* C10: no ProbabilityField exists whose normalization factor is zero.
C10_NormalizationNonZero ==
    probability_field # <<>> => probability_field[1].normalization_factor # 0

\* C11: in both planners every pass of plan_path's loop can take the goal
\* itself as its candidate (goal_bias > 0), instead of a sampled point.
C11_GoalBiasInBothPlanners ==
    (pc = "Planning" /\ (kind = "PotentialRRT" => probability_field # <<>>)) =>
        ENABLED (Next /\ chosen' = ByGoalBias)

\* the nodes of the subtree of n in depth-first pre-order, children in
\* insertion order
RECURSIVE PreOrder(_, _)
RECURSIVE SubtreesFrom(_, _, _)
SubtreesFrom(t, n, i) ==
    IF i > Len(t[n].children) THEN <<>>
    ELSE PreOrder(t, t[n].children[i]) \o SubtreesFrom(t, n, i + 1)

PreOrder(t, n) == <<n>> \o SubtreesFrom(t, n, 1)

\* the nodes of t at minimal distance from point
Nearest(t, point) ==
    {n \in 1..Len(t) :
        \A k \in 1..Len(t) : Dist2(point, t[n].point) <= Dist2(point, t[k].point)}

\* C12: find_nearest returns a node at minimal Euclidean distance from the
\* query point, and among the nodes at that distance the first one in
\* depth-first pre-order.
C12_NearestFirstInPreOrder ==
    call.op = "find_nearest" =>
        LET order == PreOrder(tree, 1)
            first == CHOOSE i \in 1..Len(order) :
                         /\ order[i] \in Nearest(tree, call.point)
                         /\ \A j \in 1..(i - 1) : order[j] \notin Nearest(tree, call.point)
        IN  /\ Len(order) = Len(tree)
            /\ call.ret \in Nearest(tree, call.point)
            /\ call.ret = order[first]

\* a tie that find_nearest decided for a node inserted after the tied node
C12_Witness ==
    /\ call.op = "find_nearest"
    /\ \E n \in Nearest(tree, call.point) : n # 1 /\ n < call.ret

\* the cross product of q - p and r - p: zero when p, q, r are on one line
Cross(p, q, r) == (q[1] - p[1]) * (r[2] - p[2]) - (q[2] - p[2]) * (r[1] - p[1])

\* r lies in the box spanned by p and q
InBox(p, q, r) == r[1] \in Between(p[1], q[1]) /\ r[2] \in Between(p[2], q[2])

\* the farthest a point is from the nearest point of the arithmetic's grid
\* (half the diagonal of a grid cell), as a length of the model rounded up
GridRounding == norm(<<0, 0>>, <<1, 1>>) \div 2 + 1

Occurrences(p, n) == Cardinality({i \in 1..Len(tree[p].children) : tree[p].children[i] = n})

\* the node graph is a tree whose child lists are in insertion order
WellFormedTree ==
    /\ tree[1].parent = 0
    /\ \A n \in 2..Len(tree) :
           /\ tree[n].parent \in 1..(n - 1)
           /\ \A p \in 1..Len(tree) :
                  Occurrences(p, n) = IF p = tree[n].parent THEN 1 ELSE 0
    /\ \A p \in 1..Len(tree) :
           /\ Occurrences(p, 1) = 0
           /\ \A i \in 1..Len(tree[p].children) :
                  /\ tree[p].children[i] \in 2..Len(tree)
                  /\ \A j \in 1..(i - 1) : tree[p].children[j] < tree[p].children[i]

\* every node stays, with its point and its parent, and every child list
\* only grows at its end
AppendOnly ==
    /\ Len(tree') >= Len(tree)
    /\ \A n \in 1..Len(tree) :
           /\ tree'[n].point = tree[n].point
           /\ tree'[n].parent = tree[n].parent
           /\ Len(tree'[n].children) >= Len(tree[n].children)
           /\ \A i \in 1..Len(tree[n].children) :
                  tree'[n].children[i] = tree[n].children[i]

\* C14: after any sequence of add_child calls the node graph is a tree (the
\* root has no parent, every other node has one parent and is exactly once in
\* that parent's child list and in no other), child lists keep insertion
\* order, and no node is ever removed, reparented or moved.
C14_TreeStructure == []WellFormedTree /\ [][AppendOnly]_vars

\* a tree with a node of two children and a node below a non-root node
C14_Witness ==
    /\ \E p \in 1..Len(tree) : Len(tree[p].children) >= 2
    /\ \E n \in 2..Len(tree) : tree[n].parent # 1

\* the obstacles of the field closer than epsilon to point
Touching(point) ==
    {i \in 1..Len(obstacles) : distance(obstacles[i], point) < pf_epsilon}

InField(point) ==
    /\ 0 <= point[1] /\ point[1] <= shape[1]
    /\ 0 <= point[2] /\ point[2] <= shape[2]

\* C17: when the source and the goal lie in the field's rectangle, so does
\* every node of the tree.
C17_NodesInField ==
    (goal # <<>> /\ InField(source) /\ InField(goal)) =>
        \A n \in 1..Len(tree) : InField(tree[n].point)

\* a call with source and goal in the rectangle that has grown the tree from
\* a sampled candidate and by an extension limited to delta
C17_Witness ==
    /\ InField(source)
    /\ goal # <<>>
    /\ InField(goal)
    /\ chosen = BySampler
    /\ Len(tree) >= 3
    /\ \E n \in 2..Len(tree) : tree[n].point[2] > 0

====
